---- MODULE Spec2Model ----
(***************************************************************************)
(* Model of the task board of src/src/app.ts (lines 1-343): the observable *)
(* store TaskState, the two TaskList views subscribed to it, the TaskItem  *)
(* cards they render and the drag-and-drop path between them.  The project *)
(* variant (lines 345-689, and src/unnamed/part_000) is the same code with *)
(* Task renamed to Project, so one model covers both.                      *)
(*                                                                         *)
(* JavaScript objects are references: objs is the heap of Task objects and *)
(* an array of tasks is a sequence of indexes into it, so that a copied    *)
(* array (slice) still shares its elements with the original.              *)
(***************************************************************************)
EXTENDS Integers, Sequences, FiniteSets, TLC

\* ------------------------------------------------------------- bounds
MaxTasks == 2
MaxClock == 1
MaxListeners == 3
MaxOps == 4

\* ------------------------------------------------------------- types
\* enum TaskStatus { Active, Completed }
Active == 0
Completed == 1
TaskStatus == {Active, Completed}

\* The two TaskList instances of the module initialisation.
ListTypes == {"active", "finished"}

\* A JavaScript number: NaN, or the fraction n / d with d a power of ten and
\* no common factor ten (so that equal numbers are equal records).
NaN == [nan |-> TRUE, n |-> 0, d |-> 1]

RECURSIVE Normal(_, _)
Normal(n, d) ==
  IF d > 1 /\ n % 10 = 0 THEN Normal(n \div 10, d \div 10)
  ELSE [nan |-> FALSE, n |-> n, d |-> d]

\* The number of an integer literal.
Num(i) == [nan |-> FALSE, n |-> i, d |-> 1]

\* x >= i and x <= i for a number x and an integer i; false for NaN.
Geq(x, i) == ~x.nan /\ x.n >= i * x.d
Leq(x, i) == ~x.nan /\ x.n <= i * x.d

IsInteger(x) == ~x.nan /\ x.d = 1

\* (title, description, numOfDays) triples handed to addTask.
TaskInputs ==
  { <<"Build CLI", "A tool for developers", Num(3)>>,
    <<"Write docs", "Short", Num(1)>> }

\* Listener functions handed to addListener: the closure of each TaskList,
\* a listener that only reads its argument, and one that writes to it.
ViewListeners == ListTypes
ReadOnlyListeners == ViewListeners \cup {"reader"}

\* Drag payloads that do not come from a card of this page.
ForeignDrags ==
  { [types |-> <<"Files">>, text |-> ""],
    [types |-> <<"text/plain">>, text |-> "stale"] }

VARIABLES
  clock,        \* Date.now()
  objs,         \* heap of Task objects
  tasks,        \* TaskState.tasks: references into objs
  listeners,    \* TaskState.listeners
  assigned,     \* TaskList.assignedTasks, per list type
  cards,        \* the TaskItem elements inside each list's <ul>
  dataTransfer, \* the drag data store of the drag in progress
  last,         \* the store operation performed last and its arguments
  round,        \* the listener invocations of the last operation, in order
  titleInput,        \* TaskInput.titleInput.value
  discriptionInput,  \* TaskInput.discriptionInput.value
  taskInput,         \* TaskInput.taskInput.value
  validArg,     \* the argument of the last call of validation
  isValid,      \* what that call returned
  instance,     \* TaskState.instance: 0 for undefined, else the store object
  stores,       \* the number of TaskState objects constructed
  pc,           \* the statement of the module initialisation to run next
  dom,          \* the children of the host elements "app" and "main"
  droppable,    \* whether each list's <ul> has the class "droppable"
  notified,     \* how often each listener has been invoked
  mutations     \* the number of addTask calls and of status changes

form == <<titleInput, discriptionInput, taskInput>>
checked == <<validArg, isValid>>
page == <<instance, stores, pc, dom>>
counts == <<notified, mutations>>

\* What the store operations and the drag handlers of the lists leave alone.
others == <<form, checked, page, droppable>>

vars == <<clock, objs, tasks, listeners, assigned, cards, dataTransfer, last, round,
          form, checked, page, droppable, counts>>

\* class Task
Task(id, title, description, days, status) ==
  [id |-> id, title |-> title, description |-> description,
   days |-> days, status |-> status]

\* The part of the state a store operation and its listeners work on.
World ==
  [objs |-> objs, tasks |-> tasks, listeners |-> listeners,
   assigned |-> assigned, cards |-> cards, round |-> <<>>]

\* The Task values an array of references points at.
Deref(heap, arr) == [i \in 1..Len(arr) |-> heap[arr[i]]]

\* A filter that builds its result back to front.
RECURSIVE FilterReversed(_, _, _)
FilterReversed(heap, arr, st) ==
  IF arr = <<>> THEN <<>>
  ELSE LET rest == FilterReversed(heap, Tail(arr), st)
       IN IF heap[Head(arr)].status = st THEN rest \o <<Head(arr)>> ELSE rest

\* Array.prototype.filter over an array of references.
RECURSIVE Filter(_, _, _)
Filter(heap, arr, st) ==
  IF arr = <<>> THEN <<>>
  ELSE LET rest == Filter(heap, Tail(arr), st)
       IN IF heap[Head(arr)].status = st THEN <<Head(arr)>> \o rest ELSE rest

\* The digits of a fraction's numerator after the decimal point: n below d,
\* padded with zeros to the length of d.
RECURSIVE FractionDigits(_, _)
FractionDigits(n, d) ==
  IF d = 1 THEN ""
  ELSE FractionDigits(n \div 10, d \div 10) \o ToString(n % 10)

\* Number.prototype.toString, for the numbers of this model.
NumberToString(x) ==
  IF x.nan THEN "NaN"
  ELSE LET a == IF x.n < 0 THEN -x.n ELSE x.n
           whole == ToString(a \div x.d)
           sign == IF x.n < 0 THEN "-" ELSE ""
       IN IF x.d = 1 THEN sign \o whole
          ELSE sign \o whole \o "." \o FractionDigits(a % x.d, x.d)

\* A getter that takes every count up to one for the singular.
DaysLabelUpToOne(days) ==
  IF Leq(days, 1) THEN "1 day" ELSE NumberToString(days) \o " days"

\* TaskItem.days
DaysLabel(days) ==
  IF days = Num(1) THEN "1 day" ELSE NumberToString(days) \o " days"

\* new TaskItem(hostId, task): the element appended to the list, as rendered.
TaskItem(heap, ref) ==
  [id |-> heap[ref].id,
   task |-> ref,
   h2 |-> heap[ref].title,
   h3 |-> DaysLabel(heap[ref].days) \o " to complete the task",
   p |-> heap[ref].description]

\* TaskList._renderTasks: empty the list, then one card per assigned task.
RenderTasks(heap, arr) == [i \in 1..Len(arr) |-> TaskItem(heap, arr[i])]

\* The status a TaskList is bound to.
BoundStatus(type) == IF type = "active" THEN Active ELSE Completed

\* A listener whose cards each register a listener of their own with the
\* store when they are constructed.
ViewListenerCardsSubscribe(type, arg, w) ==
  LET relevantTask == Filter(w.objs, arg, BoundStatus(type))
  IN [w EXCEPT !.assigned[type] = relevantTask,
               !.cards[type] = RenderTasks(w.objs, relevantTask),
               !.listeners = @ \o [i \in 1..Len(relevantTask) |-> "reader"]]

\* A listener whose _renderTasks does not empty the list first.
ViewListenerNoClear(type, arg, w) ==
  LET relevantTask == Filter(w.objs, arg, BoundStatus(type))
  IN [w EXCEPT !.assigned[type] = relevantTask,
               !.cards[type] = @ \o RenderTasks(w.objs, relevantTask)]

\* The listener a TaskList registers in configure().
ViewListener(type, arg, w) ==
  LET relevantTask == Filter(w.objs, arg, BoundStatus(type))
  IN [w EXCEPT !.assigned[type] = relevantTask,
               !.cards[type] = RenderTasks(w.objs, relevantTask)]

\* What a listener that writes to its argument can do with it: drop the last
\* element of the array, or assign a field of one of its elements.
WriterOutcomes(arg, w) ==
  {w}
  \cup {[w EXCEPT !.objs[arg[i]].status = s] : i \in 1..Len(arg), s \in TaskStatus}
  \cup {[w EXCEPT !.objs[arg[i]].title = "overwritten"] : i \in 1..Len(arg)}

\* Array.prototype.slice(): a new array holding the same references.
Slice(arr) == [i \in 1..Len(arr) |-> arr[i]]

\* listenerFn(this.tasks.slice()): the listener runs on a copy of the array,
\* whose elements are the store's own Task objects.  The entry logged for the
\* call counts the TaskItem elements that listElement.innerHTML = "" took out
\* of the list.
CallListener(i, w) ==
  LET fn == w.listeners[i]
      arg == Slice(w.tasks)
      before == Deref(w.objs, w.tasks)
      outs == IF fn \in ViewListeners THEN {ViewListener(fn, arg, w)}
              ELSE IF fn = "writer" THEN WriterOutcomes(arg, w)
              ELSE {w}
  IN { [o EXCEPT !.round =
          Append(@, [listener |-> i, fn |-> fn, snapshot |-> arg,
                     items |-> Deref(w.objs, arg),
                     storeBefore |-> before,
                     storeAfter |-> Deref(o.objs, o.tasks),
                     removed |-> IF fn \in ViewListeners
                                 THEN Len(w.cards[fn]) ELSE 0])] : o \in outs }

\* TaskState._updateListeners: the worlds the loop over this.listeners can end in.
RECURSIVE NotifyFrom(_, _)
NotifyFrom(i, w) ==
  IF i > Len(w.listeners) THEN {w}
  ELSE UNION { NotifyFrom(i + 1, w2) : w2 \in CallListener(i, w) }

\* The loop over this.listeners, from the last listener to the first.
RECURSIVE NotifyDownFrom(_, _)
NotifyDownFrom(i, w) ==
  IF i < 1 THEN {w}
  ELSE UNION { NotifyDownFrom(i - 1, w2) : w2 \in CallListener(i, w) }

UpdateListenersReversed(w) == NotifyDownFrom(Len(w.listeners), w)

UpdateListeners(w) == NotifyFrom(1, w)

\* A lookup that returns the last match.
FindLast(heap, arr, taskId) ==
  LET hits == {i \in 1..Len(arr) : heap[arr[i]].id = taskId}
  IN IF hits = {} THEN 0 ELSE CHOOSE i \in hits : \A j \in hits : i >= j

\* Array.prototype.find((t) => t.id === taskId): the index of the first match,
\* 0 for undefined.
Find(heap, arr, taskId) ==
  LET hits == {i \in 1..Len(arr) : heap[arr[i]].id = taskId}
  IN IF hits = {} THEN 0 ELSE CHOOSE i \in hits : \A j \in hits : i <= j

\* Array.prototype.unshift in place of push.
Unshift(arr, x) == <<x>> \o arr

\* Array.prototype.push
Push(arr, x) == Append(arr, x)

\* addTask with the call of _updateListeners before the push.
AddTaskNotifyFirst(w, now, title, description, numOfDays) ==
  LET newTask == Task(ToString(now), title, description, numOfDays, Active)
      ref == Len(w.objs) + 1
  IN { [w2 EXCEPT !.objs = Append(@, newTask), !.tasks = Push(@, ref)] :
         w2 \in UpdateListeners(w) }

\* TaskState.addTask
AddTaskIn(w, now, title, description, numOfDays) ==
  LET newTask == Task(ToString(now), title, description, numOfDays, Active)
      ref == Len(w.objs) + 1
  IN UpdateListeners([w EXCEPT !.objs = Append(@, newTask),
                               !.tasks = Push(@, ref)])

\* switchTaskStatus without the comparison of the statuses.
SwitchNoStatusCheck(w, taskId, newStatus) ==
  LET task == Find(w.objs, w.tasks, taskId)
  IN IF task # 0
     THEN UpdateListeners([w EXCEPT !.objs[w.tasks[task]].status = newStatus])
     ELSE {w}

\* switchTaskStatus with the call of _updateListeners after the if statement.
SwitchNotifyAlways(w, taskId, newStatus) ==
  LET task == Find(w.objs, w.tasks, taskId)
  IN IF task # 0 /\ w.objs[w.tasks[task]].status # newStatus
     THEN UpdateListeners([w EXCEPT !.objs[w.tasks[task]].status = newStatus])
     ELSE UpdateListeners(w)

\* switchTaskStatus that also moves the task to the end of this.tasks.
SwitchAndMoveToEnd(w, taskId, newStatus) ==
  LET task == Find(w.objs, w.tasks, taskId)
      moved == [i \in 1..Len(w.tasks) |->
                  IF i < task THEN w.tasks[i]
                  ELSE IF i < Len(w.tasks) THEN w.tasks[i + 1]
                  ELSE w.tasks[task]]
  IN IF task # 0 /\ w.objs[w.tasks[task]].status # newStatus
     THEN UpdateListeners([w EXCEPT !.objs[w.tasks[task]].status = newStatus,
                                    !.tasks = moved])
     ELSE {w}

\* TaskState.switchTaskStatus
SwitchTaskStatusIn(w, taskId, newStatus) ==
  LET task == Find(w.objs, w.tasks, taskId)
  IN IF task # 0 /\ w.objs[w.tasks[task]].status # newStatus
     THEN UpdateListeners([w EXCEPT !.objs[w.tasks[task]].status = newStatus])
     ELSE {w}

\* ------------------------------------------------------------- validation
\* One-character strings.
CharAt(s, i) == SubSeq(s, i, i)

WhiteSpace == {" ", "\t", "\n"}

\* String.prototype.trim
RECURSIVE TrimStart(_)
TrimStart(s) ==
  IF s # "" /\ CharAt(s, 1) \in WhiteSpace THEN TrimStart(SubSeq(s, 2, Len(s)))
  ELSE s

RECURSIVE TrimEnd(_)
TrimEnd(s) ==
  IF s # "" /\ CharAt(s, Len(s)) \in WhiteSpace THEN TrimEnd(SubSeq(s, 1, Len(s) - 1))
  ELSE s

Trim(s) == TrimEnd(TrimStart(s))

DecimalDigits == <<"0", "1", "2", "3", "4", "5", "6", "7", "8", "9">>

IsDigit(c) == \E i \in 1..Len(DecimalDigits) : DecimalDigits[i] = c

DigitValue(c) == (CHOOSE i \in 1..Len(DecimalDigits) : DecimalDigits[i] = c) - 1

RECURSIVE AllDigits(_)
AllDigits(s) ==
  s = "" \/ (IsDigit(CharAt(s, 1)) /\ AllDigits(SubSeq(s, 2, Len(s))))

\* The value of a string of decimal digits; 0 for the empty string.
RECURSIVE DigitsValue(_)
DigitsValue(s) ==
  IF s = "" THEN 0
  ELSE DigitsValue(SubSeq(s, 1, Len(s) - 1)) * 10 + DigitValue(CharAt(s, Len(s)))

RECURSIVE Pow10(_)
Pow10(k) == IF k = 0 THEN 1 ELSE 10 * Pow10(k - 1)

\* The position of the first c in s, 0 when there is none.
IndexOf(s, c) ==
  LET hits == {i \in 1..Len(s) : CharAt(s, i) = c}
  IN IF hits = {} THEN 0 ELSE CHOOSE i \in hits : \A j \in hits : i <= j

\* The number of an unsigned decimal literal: digits, with an optional point
\* and fraction; NaN for any other text.
UnsignedNumber(s) ==
  LET dot == IndexOf(s, ".")
      whole == IF dot = 0 THEN s ELSE SubSeq(s, 1, dot - 1)
      frac == IF dot = 0 THEN "" ELSE SubSeq(s, dot + 1, Len(s))
  IN IF AllDigits(whole) /\ AllDigits(frac) /\ (whole # "" \/ frac # "")
     THEN Normal(DigitsValue(whole \o frac), Pow10(Len(frac)))
     ELSE NaN

Negate(x) == IF x.nan THEN x ELSE [x EXCEPT !.n = -x.n]

\* The unary plus of a string (+enteredTask): the empty and the blank string
\* are 0, a signed decimal literal is its number, any other text is NaN.
\* Exponents, hexadecimal literals and Infinity are not modelled; the field
\* contents of this model do not use them.
ToNumber(s) ==
  LET t == Trim(s)
  IN IF t = "" THEN Num(0)
     ELSE IF CharAt(t, 1) = "-" THEN Negate(UnsignedNumber(SubSeq(t, 2, Len(t))))
     ELSE IF CharAt(t, 1) = "+" THEN UnsignedNumber(SubSeq(t, 2, Len(t)))
     ELSE UnsignedNumber(t)

\* A value of type string | number, with its typeof.
StringValue(s) == [type |-> "string", str |-> s, num |-> NaN]
NumberValue(x) == [type |-> "number", str |-> "", num |-> x]

\* value.toString()
ValueToString(v) == IF v.type = "string" THEN v.str ELSE NumberToString(v.num)

\* interface Valid.  An optional property is the empty sequence when absent
\* and a one-element sequence when present; required is FALSE when absent.
Valid(value, required, minLength, maxLength, min, max) ==
  [value |-> value, required |-> required, minLength |-> minLength,
   maxLength |-> maxLength, min |-> min, max |-> max]

Absent == <<>>
Some(x) == <<x>>

\* validation with >= and <= of the numeric range taken as > and <.
ValidationStrictRange(validInput) ==
  LET v == validInput.value
      v1 == IF validInput.required
            THEN Len(Trim(ValueToString(v))) # 0 ELSE TRUE
      v2 == IF validInput.minLength # Absent /\ v.type = "string"
            THEN v1 /\ Len(v.str) >= validInput.minLength[1] ELSE v1
      v3 == IF validInput.maxLength # Absent /\ v.type = "string"
            THEN v2 /\ Len(v.str) <= validInput.maxLength[1] ELSE v2
      v4 == IF validInput.min # Absent /\ v.type = "number"
            THEN v3 /\ ~Leq(v.num, validInput.min[1]) /\ ~v.num.nan ELSE v3
      v5 == IF validInput.max # Absent /\ v.type = "number"
            THEN v4 /\ ~Geq(v.num, validInput.max[1]) /\ ~v.num.nan ELSE v4
  IN v5

\* function validation(validInput: Valid)
Validation(validInput) ==
  LET v == validInput.value
      v1 == IF validInput.required
            THEN Len(Trim(ValueToString(v))) # 0 ELSE TRUE
      v2 == IF validInput.minLength # Absent /\ v.type = "string"
            THEN v1 /\ Len(v.str) >= validInput.minLength[1] ELSE v1
      v3 == IF validInput.maxLength # Absent /\ v.type = "string"
            THEN v2 /\ Len(v.str) <= validInput.maxLength[1] ELSE v2
      v4 == IF validInput.min # Absent /\ v.type = "number"
            THEN v3 /\ Geq(v.num, validInput.min[1]) ELSE v3
      v5 == IF validInput.max # Absent /\ v.type = "number"
            THEN v4 /\ Leq(v.num, validInput.max[1]) ELSE v4
  IN v5

\* _getUserInput that alerts only when all three validations fail.
GetUserInputAllFail(enteredTitle, enteredDiscription, enteredTask) ==
  LET titleValid ==
        Valid(StringValue(enteredTitle), TRUE, Absent, Absent, Absent, Absent)
      discriptionValid ==
        Valid(StringValue(enteredDiscription), TRUE, Some(5), Some(500), Absent, Absent)
      taskValid ==
        Valid(NumberValue(ToNumber(enteredTask)), TRUE, Absent, Absent, Some(1), Some(10))
  IN IF ~Validation(titleValid) /\ ~Validation(discriptionValid)
        /\ ~Validation(taskValid)
     THEN <<>>
     ELSE << <<enteredTitle, enteredDiscription, ToNumber(enteredTask)>> >>

\* TaskInput._getUserInput: the tuple handed to addTask, in a one-element
\* sequence, or the empty sequence after the alert.
GetUserInput(enteredTitle, enteredDiscription, enteredTask) ==
  LET titleValid ==
        Valid(StringValue(enteredTitle), TRUE, Absent, Absent, Absent, Absent)
      discriptionValid ==
        Valid(StringValue(enteredDiscription), TRUE, Some(5), Some(500), Absent, Absent)
      taskValid ==
        Valid(NumberValue(ToNumber(enteredTask)), TRUE, Absent, Absent, Some(1), Some(10))
  IN IF ~Validation(titleValid) \/ ~Validation(discriptionValid)
        \/ ~Validation(taskValid)
     THEN <<>>
     ELSE << <<enteredTitle, enteredDiscription, ToNumber(enteredTask)>> >>

\* The state after a store operation that ended in world w.
Commit(w) ==
  /\ objs' = w.objs
  /\ tasks' = w.tasks
  /\ listeners' = w.listeners
  /\ assigned' = w.assigned
  /\ cards' = w.cards
  /\ round' = w.round

\* ------------------------------------------------------------- actions
\* The state after the module initialisation: the store exists, both lists
\* are constructed and subscribed, nothing was added.
Init ==
  /\ clock = 0
  /\ objs = <<>>
  /\ tasks = <<>>
  /\ listeners = <<"active", "finished">>
  /\ assigned = [t \in ListTypes |-> <<>>]
  /\ cards = [t \in ListTypes |-> <<>>]
  /\ dataTransfer = [types |-> <<>>, text |-> ""]
  /\ last = [op |-> "init"]
  /\ round = <<>>
  /\ titleInput = ""
  /\ discriptionInput = ""
  /\ taskInput = ""
  /\ validArg = Valid(StringValue(""), FALSE, Absent, Absent, Absent, Absent)
  /\ isValid = TRUE
  /\ instance = 1
  /\ stores = 1
  /\ pc = "ready"
  /\ dom = [app |-> <<"user-input">>, main |-> <<"active-tasks", "finished-tasks">>]
  /\ droppable = [t \in ListTypes |-> FALSE]
  /\ notified = [k \in 1..2 |-> 0]
  /\ mutations = 0

\* A millisecond passes.
Tick ==
  /\ clock < MaxClock
  /\ clock' = clock + 1
  /\ UNCHANGED <<objs, tasks, listeners, assigned, cards, dataTransfer, last, round>>
  /\ UNCHANGED <<others, counts>>

\* TaskState.addListener
AddListenerOf(fns) ==
  /\ pc = "ready"
  /\ Len(listeners) < MaxListeners
  /\ \E fn \in fns :
       /\ listeners' = Append(listeners, fn)
       /\ last' = [op |-> "addListener", fn |-> fn]
  /\ round' = <<>>
  /\ UNCHANGED <<clock, objs, tasks, assigned, cards, dataTransfer>>
  /\ UNCHANGED <<others, counts>>

\* TaskState.addListener, for the listeners that only read their argument.
AddListener == AddListenerOf(ReadOnlyListeners)

\* TaskState.addListener, for a listener that writes to its argument.
AddWriter == AddListenerOf({"writer"})

\* taskState.addTask(title, description, numOfDays), the counters apart.
AddTaskCall(in) ==
  /\ pc = "ready"
  /\ Len(tasks) < MaxTasks
  /\ last' = [op |-> "addTask", title |-> in[1], description |-> in[2],
              days |-> in[3]]
  /\ UNCHANGED <<clock, dataTransfer, others>>
  /\ \E w \in AddTaskIn(World, clock, in[1], in[2], in[3]) : Commit(w)

\* taskState.addTask(title, description, numOfDays)
AddTaskOf(in) ==
  /\ UNCHANGED counts
  /\ AddTaskCall(in)

AddTask == \E in \in TaskInputs : AddTaskOf(in)

\* TaskItem.dragStartHandler, on the k-th card of a list.
DragStart ==
  /\ pc = "ready"
  /\ \E t \in ListTypes : \E k \in 1..Len(cards[t]) :
       dataTransfer' = [types |-> <<"text/plain">>, text |-> objs[cards[t][k].task].id]
  /\ UNCHANGED <<clock, objs, tasks, listeners, assigned, cards, last, round>>
  /\ UNCHANGED <<others, counts>>

\* A drag that starts outside the page's cards.
ForeignDrag ==
  /\ pc = "ready"
  /\ dataTransfer' \in ForeignDrags
  /\ UNCHANGED <<clock, objs, tasks, listeners, assigned, cards, last, round>>
  /\ UNCHANGED <<others, counts>>

\* e.dataTransfer.getData("text/plain")
GetData(dt) ==
  IF \E i \in 1..Len(dt.types) : dt.types[i] = "text/plain" THEN dt.text ELSE ""

\* A dropHandler that also removes "droppable" from its list.
DropCallClearsMarker(t) ==
  LET taskId == GetData(dataTransfer)
  IN /\ pc = "ready"
     /\ last' = [op |-> "drop", type |-> t, id |-> taskId,
                 status |-> BoundStatus(t)]
     /\ droppable' = [droppable EXCEPT ![t] = FALSE]
     /\ UNCHANGED <<clock, dataTransfer, form, checked, page>>
     /\ \E w \in SwitchTaskStatusIn(World, taskId, BoundStatus(t)) : Commit(w)

\* TaskList.dropHandler of the list of type t, the counters apart.
DropCall(t) ==
  LET taskId == GetData(dataTransfer)
  IN /\ pc = "ready"
     /\ last' = [op |-> "drop", type |-> t, id |-> taskId,
                 status |-> BoundStatus(t)]
     /\ UNCHANGED <<clock, dataTransfer, others>>
     /\ \E w \in SwitchTaskStatusIn(World, taskId, BoundStatus(t)) : Commit(w)

\* TaskList.dropHandler of the list of type t
DropOn(t) ==
  /\ UNCHANGED counts
  /\ DropCall(t)

Drop == \E t \in ListTypes : DropOn(t)

Next ==
  \/ Tick
  \/ AddListener
  \/ AddTask
  \/ DragStart
  \/ ForeignDrag
  \/ Drop

Spec == Init /\ [][Next]_vars

\* The same program with a listener that writes to the array it is handed.
NextW == Next \/ AddWriter

SpecW == Init /\ [][NextW]_vars

\* ------------------------------------------------------------- the form
RECURSIVE Repeat(_, _)
Repeat(c, k) ==
  IF k = 0
  THEN ""
  ELSE LET half == Repeat(c, k \div 2)
       IN half \o half \o (IF k % 2 = 1 THEN c ELSE "")

\* Texts a user can leave in the three fields of the form.
TitleTexts == {"", " ", "Build CLI"}
DescriptionTexts == {"Shrt", "Short", Repeat("x", 500), Repeat("x", 501)}
DaysTexts == {"", "abc", "0", "1", "3.5", "10", "11"}

\* The user changes the content of one field of the form.
Type ==
  /\ pc = "ready"
  /\ \/ titleInput' \in TitleTexts /\ UNCHANGED <<discriptionInput, taskInput>>
     \/ discriptionInput' \in DescriptionTexts /\ UNCHANGED <<titleInput, taskInput>>
     \/ taskInput' \in DaysTexts /\ UNCHANGED <<titleInput, discriptionInput>>
  /\ UNCHANGED <<clock, objs, tasks, listeners, assigned, cards, dataTransfer, last, round>>
  /\ UNCHANGED <<checked, page, droppable, counts>>

\* TaskInput._clearForm
ClearForm ==
  /\ titleInput' = ""
  /\ discriptionInput' = ""
  /\ taskInput' = ""

\* TaskInput._submitHandler
Submit ==
  /\ pc = "ready"
  /\ UNCHANGED <<clock, dataTransfer, checked, page, droppable, counts>>
  /\ LET userInput == GetUserInput(titleInput, discriptionInput, taskInput)
     IN IF userInput # <<>>
        THEN /\ Len(tasks) < MaxTasks
             /\ last' = [op |-> "submit", alert |-> ""]
             /\ \E w \in AddTaskIn(World, clock, userInput[1][1], userInput[1][2],
                                    userInput[1][3]) : Commit(w)
             /\ ClearForm
        ELSE /\ last' = [op |-> "submit", alert |-> "Invalid input, try again"]
             /\ round' = <<>>
             /\ UNCHANGED <<objs, tasks, listeners, assigned, cards, form>>

NextForm ==
  \/ Type
  \/ Submit

\* The form and the store behind it.
SpecForm == Init /\ [][NextForm]_vars

\* ------------------------------------------------------- the drop target
\* Payloads of drags that start outside the page's cards: files, selected
\* text and markup in either order of declaration, and nothing at all.
OutsideDrags ==
  ForeignDrags
    \cup { [types |-> <<"text/html", "text/plain">>, text |-> "stale"],
           [types |-> <<"text/plain", "text/html">>, text |-> "stale"],
           [types |-> <<>>, text |-> ""] }

OutsideDrag ==
  /\ pc = "ready"
  /\ dataTransfer' \in OutsideDrags
  /\ UNCHANGED <<clock, objs, tasks, listeners, assigned, cards, last, round>>
  /\ UNCHANGED <<others, counts>>

\* dragOverHandler's test taken as "the payload declares some type".
AcceptsAnyType(dt) == Len(dt.types) > 0

\* e.dataTransfer && e.dataTransfer.types[0] === "text/plain"
Accepts(dt) == Len(dt.types) > 0 /\ dt.types[1] = "text/plain"

\* TaskList.dragOverHandler of the list of type t
DragOverOn(t) ==
  /\ pc = "ready"
  /\ IF Accepts(dataTransfer)
     THEN /\ last' = [op |-> "dragover", type |-> t, defaultPrevented |-> TRUE]
          /\ droppable' = [droppable EXCEPT ![t] = TRUE]
     ELSE /\ last' = [op |-> "dragover", type |-> t, defaultPrevented |-> FALSE]
          /\ UNCHANGED droppable
  /\ UNCHANGED <<clock, objs, tasks, listeners, assigned, cards, dataTransfer, round>>
  /\ UNCHANGED <<form, checked, page, counts>>

DragOver == \E t \in ListTypes : DragOverOn(t)

\* TaskList.dragLeaveHandler of the list of type t
DragLeaveOn(t) ==
  /\ pc = "ready"
  /\ last' = [op |-> "dragleave", type |-> t]
  /\ droppable' = [droppable EXCEPT ![t] = FALSE]
  /\ UNCHANGED <<clock, objs, tasks, listeners, assigned, cards, dataTransfer, round>>
  /\ UNCHANGED <<form, checked, page, counts>>

DragLeave == \E t \in ListTypes : DragLeaveOn(t)

NextDnD ==
  \/ AddTask
  \/ DragStart
  \/ OutsideDrag
  \/ DragOver
  \/ DragLeave
  \/ Drop

\* The two lists as drop targets.
SpecDnD == Init /\ [][NextDnD]_vars

\* ------------------------------------------------------------ the cards
\* Arguments of addTask with the day counts a label is rendered for.
LabelInputs ==
  { <<"Build CLI", "A tool for developers", x>> :
      x \in {Num(0), Num(1), Num(2), Num(10), ToNumber("3.5"), ToNumber("1.5")} }

\* taskState.addTask with any of these day counts.
AddTaskLabelled == \E in \in LabelInputs : AddTaskOf(in)

NextLabel ==
  \/ AddTaskLabelled
  \/ DragStart
  \/ Drop

\* The cards the two lists render.
SpecLabel == Init /\ [][NextLabel]_vars

\* ------------------------------------------------------- counted calls
\* The listener calls of the step just taken, added to each listener's count.
CountCalls ==
  notified' = [k \in DOMAIN notified |->
                 notified[k] + Cardinality({c \in 1..Len(round') : round'[c].listener = k})]

\* taskState.addTask, counted.
CountedAdd ==
  /\ mutations < MaxOps
  /\ \E in \in TaskInputs : AddTaskCall(in)
  /\ mutations' = mutations + 1
  /\ CountCalls

\* TaskList.dropHandler, counted when it changed an item's status.
CountedDrop ==
  /\ \E t \in ListTypes : DropCall(t)
  /\ mutations' = mutations + (IF Deref(objs', tasks') # Deref(objs, tasks) THEN 1 ELSE 0)
  /\ mutations' <= MaxOps
  /\ CountCalls

NextCount ==
  \/ Tick
  \/ CountedAdd
  \/ DragStart
  \/ ForeignDrag
  \/ CountedDrop

\* The store's operations with the calls of the two lists' listeners counted.
SpecCount == Init /\ [][NextCount]_vars

\* --------------------------------------------------- module initialisation
\* getInstance that constructs a TaskState on every call.
GetInstanceAlwaysNew(inst, n) ==
  [instance |-> n + 1, stores |-> n + 1, returned |-> n + 1]

\* TaskState.getInstance.  inst is the static field (0 for undefined), n the
\* number of TaskState objects constructed so far.
GetInstanceIn(inst, n) ==
  IF inst # 0
  THEN [instance |-> inst, stores |-> n, returned |-> inst]
  ELSE [instance |-> n + 1, stores |-> n + 1, returned |-> n + 1]

\* The fields read through a reference to a TaskState: those of taskState
\* (the object constructed first) or those a later constructor call sets.
StoreFields(ref) ==
  IF ref = 1
  THEN [tasks |-> tasks, listeners |-> listeners]
  ELSE [tasks |-> <<>>, listeners |-> <<>>]

\* _attach with the two positions exchanged.
AttachInverted(children, insertBefore, el) ==
  IF insertBefore THEN Append(children, el) ELSE <<el>> \o children

\* Component._attach: insertAdjacentElement("afterbegin" | "beforeend", element)
Attach(children, insertBefore, el) ==
  IF insertBefore THEN <<el>> \o children ELSE Append(children, el)

\* What the hosts "app" and "main" hold before the script runs.
HostContents == {<<>>, <<"heading">>}

\* The page before the first statement of the script.
InitLoad ==
  /\ clock = 0
  /\ objs = <<>>
  /\ tasks = <<>>
  /\ listeners = <<>>
  /\ assigned = [t \in ListTypes |-> <<>>]
  /\ cards = [t \in ListTypes |-> <<>>]
  /\ dataTransfer = [types |-> <<>>, text |-> ""]
  /\ last = [op |-> "init"]
  /\ round = <<>>
  /\ titleInput = ""
  /\ discriptionInput = ""
  /\ taskInput = ""
  /\ validArg = Valid(StringValue(""), FALSE, Absent, Absent, Absent, Absent)
  /\ isValid = TRUE
  /\ instance = 0
  /\ stores = 0
  /\ pc = "start"
  /\ \E c \in HostContents : dom = [app |-> c, main |-> c]
  /\ droppable = [t \in ListTypes |-> FALSE]
  /\ notified = [k \in 1..2 |-> 0]
  /\ mutations = 0

\* One call of TaskState.getInstance().
GetInstanceCall ==
  LET got == GetInstanceIn(instance, stores)
  IN /\ instance' = got.instance
     /\ stores' = got.stores
     /\ last' = [op |-> "getInstance", returned |-> got.returned]
     /\ UNCHANGED <<clock, objs, tasks, listeners, assigned, cards, dataTransfer, round>>
     /\ UNCHANGED <<form, checked, dom, droppable, counts>>

\* const taskState = TaskState.getInstance();
LoadStore ==
  /\ pc = "start"
  /\ pc' = "input"
  /\ GetInstanceCall

\* A later call of TaskState.getInstance().
GetInstance ==
  /\ pc # "start"
  /\ pc' = pc
  /\ GetInstanceCall

\* const input = new TaskInput();
LoadInput ==
  /\ pc = "input"
  /\ pc' = "active"
  /\ dom' = [dom EXCEPT !.app = Attach(@, TRUE, "user-input")]
  /\ UNCHANGED <<clock, objs, tasks, listeners, assigned, cards, dataTransfer, last, round>>
  /\ UNCHANGED <<form, checked, instance, stores, droppable, counts>>

\* new TaskList(type)
LoadList(type) ==
  /\ pc = type
  /\ pc' = IF type = "active" THEN "finished" ELSE "ready"
  /\ dom' = [dom EXCEPT !.main = Attach(@, FALSE, type \o "-tasks")]
  /\ assigned' = [assigned EXCEPT ![type] = <<>>]
  /\ listeners' = Append(listeners, type)
  /\ UNCHANGED <<clock, objs, tasks, cards, dataTransfer, last, round>>
  /\ UNCHANGED <<form, checked, instance, stores, droppable, counts>>

\* const activeList = new TaskList("active");
\* const finishedList = new TaskList("finished");
LoadLists == \E type \in ListTypes : LoadList(type)

\* addListener of a listener that only reads its argument.
AddReader == AddListenerOf({"reader"})

NextLoad ==
  \/ LoadStore
  \/ LoadInput
  \/ LoadLists
  \/ GetInstance
  \/ AddReader
  \/ AddTask
  \/ DragStart
  \/ Drop

\* The script from its first statement on.
SpecLoad == InitLoad /\ [][NextLoad]_vars

NextPage ==
  \/ LoadStore
  \/ LoadInput
  \/ LoadLists
  \/ Tick
  \/ AddTask
  \/ DragStart
  \/ ForeignDrag
  \/ Drop

\* The script and the page's own handlers, with no call from outside them.
SpecPage == InitLoad /\ [][NextPage]_vars

\* -------------------------------------------------------- the validator
\* Values and constraint descriptors handed to validation.
ValidValues ==
  {StringValue(s) : s \in {"", " ", "hell", "hello", Repeat("x", 500), Repeat("x", 501)}}
    \cup {NumberValue(x) : x \in {Num(0), Num(1), Num(5), Num(10), Num(11),
                                  ToNumber("3.5"), NaN}}

ValidInputs ==
  {Valid(value, required, minLength, maxLength, min, max) :
     value \in ValidValues, required \in BOOLEAN,
     minLength \in {Absent, Some(5)}, maxLength \in {Absent, Some(500)},
     min \in {Absent, Some(1)}, max \in {Absent, Some(10)}}

\* One call of validation.
Validate ==
  /\ validArg' \in ValidInputs
  /\ isValid' = Validation(validArg')
  /\ UNCHANGED <<clock, objs, tasks, listeners, assigned, cards, dataTransfer, last, round>>
  /\ UNCHANGED <<form, page, droppable, counts>>

NextValid == Validate

\* Calls of validation alone.
SpecValid == Init /\ [][NextValid]_vars

\* ------------------------------------------------------------- claims
Range(arr) == {arr[i] : i \in 1..Len(arr)}

\* The store's items, by value.
Store == Deref(objs, tasks)

\* The store and the views are as they were, and nobody was notified.
SilentNoOp ==
  /\ UNCHANGED <<objs, tasks, listeners, assigned, cards>>
  /\ round' = <<>>

\* C1: every addTask appends exactly one item to the end of the store's
\* sequence, the item is Active and carries the title, description and days
\* passed in, and every registered listener is invoked exactly once with a
\* snapshot one longer than the previous sequence that ends with the new item.
C1_AddAppendsAndNotifies ==
  [][\A in \in TaskInputs : AddTaskOf(in) =>
       LET n == Len(tasks)
           new == objs'[tasks'[n + 1]]
       IN /\ Len(tasks') = n + 1
          /\ SubSeq(tasks', 1, n) = tasks
          /\ tasks'[n + 1] \notin Range(tasks)
          /\ SubSeq(Store', 1, n) = Store
          /\ new.status = Active
          /\ <<new.title, new.description, new.days>> = in
          /\ Len(round') = Len(listeners)
          /\ \A k \in 1..Len(round') :
               /\ round'[k].listener = k
               /\ Len(round'[k].snapshot) = n + 1
               /\ round'[k].snapshot[n + 1] = tasks'[n + 1]
               /\ round'[k].items[n + 1] = new
    ]_vars

\* An addTask into a store that held an item, with three listeners notified.
C1_Witness ==
  /\ last.op = "addTask"
  /\ Len(tasks) = 2
  /\ Len(round) = 3

\* C2: no two items of the store have the same id.
C2_IdsUnique ==
  \A i, j \in 1..Len(tasks) : i # j => objs[tasks[i]].id # objs[tasks[j]].id

\* C3: a transition to the status the looked-up item (the first item with the
\* id) already has changes nothing and notifies nobody; so after any
\* transition, which notified every listener once if it changed the status,
\* the same transition again is such a no-op.
C3_TransitionIdempotent ==
  [][\A t \in ListTypes : DropOn(t) =>
       LET taskId == GetData(dataTransfer)
           task == Find(objs, tasks, taskId)
           same == task # 0 /\ objs[tasks[task]].status = BoundStatus(t)
           changed == task # 0 /\ objs[tasks[task]].status # BoundStatus(t)
       IN /\ same => SilentNoOp
          /\ changed => Len(round') = Len(listeners)
                        /\ \A k \in 1..Len(round') : round'[k].listener = k
          /\ (SwitchTaskStatusIn(World, taskId, BoundStatus(t)) = {World})'
    ]_vars

\* A drop of the id of an existing item on the list it is already in.
C3_Witness ==
  /\ last.op = "drop"
  /\ Find(objs, tasks, last.id) # 0
  /\ objs[tasks[Find(objs, tasks, last.id)]].status = last.status
  /\ round = <<>>
  /\ Len(tasks) = 2

\* C4: a transition with an id no item has changes nothing and notifies nobody.
C4_UnknownIdNoOp ==
  [][\A t \in ListTypes :
       (DropOn(t) /\ Find(objs, tasks, GetData(dataTransfer)) = 0) => SilentNoOp
    ]_vars

\* A drop of an id no item has, on a store that holds items.
C4_Witness ==
  /\ last.op = "drop"
  /\ last.id = "stale"
  /\ Find(objs, tasks, last.id) = 0
  /\ Len(tasks) = 2
  /\ round = <<>>

\* C5: nothing a listener does with the array it is handed, or with the items
\* in it, changes the store's sequence or the fields of the store's items.
C5_ListenersCannotMutateStore ==
  \A k \in 1..Len(round) : round[k].storeAfter = round[k].storeBefore

\* C6: in every notification round the listeners are invoked in the order of
\* their registration, once per registration, each with the entire current
\* sequence of the store.
C6_RegistrationOrderFullSequence ==
  round # <<>> =>
    /\ Len(round) = Len(listeners)
    /\ \A k \in 1..Len(round) :
         /\ round[k].listener = k
         /\ round[k].fn = listeners[k]
         /\ round[k].snapshot = tasks
         /\ round[k].items = Store

\* A round over a store of two items in which one listener function,
\* registered twice, was invoked twice.
C6_Witness ==
  /\ Len(round) = 3
  /\ Len(tasks) = 2
  /\ \E i, j \in 1..Len(listeners) : i < j /\ listeners[i] = listeners[j]
  /\ \E i, j \in 1..Len(round) : i < j /\ round[i].fn = round[j].fn

\* C7: every snapshot of a round shows the mutation the round reports, the
\* added item or the item's new status, and all snapshots of a round are equal.
C7_NotifyAfterMutation ==
  round # <<>> =>
    /\ last.op = "addTask" =>
         \A k \in 1..Len(round) :
           LET snap == round[k].snapshot
               item == round[k].items[Len(snap)]
           IN /\ snap # <<>>
              /\ snap[Len(snap)] = Len(objs)
              /\ item.status = Active
              /\ <<item.title, item.description, item.days>>
                   = <<last.title, last.description, last.days>>
    /\ last.op = "drop" =>
         \A k \in 1..Len(round) :
           LET task == Find(objs, tasks, last.id)
           IN /\ task # 0
              /\ round[k].snapshot[task] = tasks[task]
              /\ round[k].items[task].status = last.status
    /\ \A k, l \in 1..Len(round) :
         /\ round[k].snapshot = round[l].snapshot
         /\ round[k].items = round[l].items

\* A round of three listeners after a drop that changed a status.
C7_Witness ==
  /\ last.op = "drop"
  /\ Len(round) = 3
  /\ Len(tasks) = 2

\* s is the start of t.
IsPrefix(s, t) == Len(s) <= Len(t) /\ SubSeq(t, 1, Len(s)) = s

\* The ids of the store's items, in the store's order.
Ids == [i \in 1..Len(tasks) |-> objs[tasks[i]].id]

\* C8: no operation removes or reorders items: the store's sequence before a
\* step is the start of the sequence after it, the same for a transition and
\* one longer for addTask; and every item's status is Active or Completed.
C8_InsertionOrderKept ==
  [][/\ IsPrefix(tasks, tasks')
     /\ IsPrefix(Ids, Ids')
     /\ \A t \in ListTypes : DropOn(t) => (tasks' = tasks /\ Ids' = Ids)
     /\ \A in \in TaskInputs : AddTaskOf(in) => Len(Ids') = Len(Ids) + 1
     /\ \A i \in 1..Len(tasks') : objs'[tasks'[i]].status \in TaskStatus
    ]_vars

\* The first of two items was moved to Completed by a drop.
C8_Witness ==
  /\ last.op = "drop"
  /\ round # <<>>
  /\ Len(tasks) = 2
  /\ objs[tasks[1]].status = Completed
  /\ objs[tasks[2]].status = Active

\* How often x occurs in arr.
Count(arr, x) == Cardinality({i \in 1..Len(arr) : arr[i] = x})

\* Merging a and f, each in its own order, gives snap.
RECURSIVE IsMerge(_, _, _)
IsMerge(snap, a, f) ==
  IF snap = <<>> THEN a = <<>> /\ f = <<>>
  ELSE \/ a # <<>> /\ Head(a) = Head(snap) /\ IsMerge(Tail(snap), Tail(a), f)
       \/ f # <<>> /\ Head(f) = Head(snap) /\ IsMerge(Tail(snap), a, Tail(f))

\* C9: the two lists' assigned tasks partition the snapshot delivered to
\* them: every item of the snapshot is in exactly one of the two lists, and
\* the lists, merged in the snapshot's order, give the snapshot.
C9_FilterStablePartition ==
  round # <<>> =>
    LET snap == round[1].snapshot
    IN /\ \A i \in 1..Len(snap) :
            Count(assigned["active"], snap[i]) + Count(assigned["finished"], snap[i]) = 1
       /\ Len(assigned["active"]) + Len(assigned["finished"]) = Len(snap)
       /\ IsMerge(snap, assigned["active"], assigned["finished"])

\* A snapshot of two items, the first Completed and the second Active, was
\* delivered, and each list holds one of them.
C9_Witness ==
  /\ round # <<>>
  /\ Len(round[1].snapshot) = 2
  /\ objs[tasks[1]].status = Completed
  /\ assigned["finished"] = <<tasks[1]>>
  /\ assigned["active"] = <<tasks[2]>>

\* The other list.
Other(t) == IF t = "active" THEN "finished" ELSE "active"

\* C10: after a drop of the id of an existing item on a list, the item has
\* the list's status, is among the list's assigned tasks and not among the
\* other list's, and has the title, description and days it had; a drop on
\* the list the item is already in changes nothing.
C10_DropMovesItem ==
  [][\A t \in ListTypes : DropOn(t) =>
       \A r \in Range(tasks) :
         objs[r].id = GetData(dataTransfer) =>
           /\ objs'[r].status = BoundStatus(t)
           /\ r \in Range(assigned'[t])
           /\ r \notin Range(assigned'[Other(t)])
           /\ <<objs'[r].title, objs'[r].description, objs'[r].days>>
                = <<objs[r].title, objs[r].description, objs[r].days>>
           /\ objs[r].status = BoundStatus(t) => SilentNoOp
    ]_vars

\* C10 for the stores whose ids are distinct.
C10_DropMovesItemUniqueIds ==
  [][\A t \in ListTypes : (C2_IdsUnique /\ DropOn(t)) =>
       \A r \in Range(tasks) :
         objs[r].id = GetData(dataTransfer) =>
           /\ objs'[r].status = BoundStatus(t)
           /\ r \in Range(assigned'[t])
           /\ r \notin Range(assigned'[Other(t)])
           /\ <<objs'[r].title, objs'[r].description, objs'[r].days>>
                = <<objs[r].title, objs[r].description, objs[r].days>>
           /\ objs[r].status = BoundStatus(t) => SilentNoOp
    ]_vars

\* The three validations of the form, as section 4.6 lists them.
TitlePasses == Len(Trim(titleInput)) # 0
DescriptionPasses ==
  /\ Len(Trim(discriptionInput)) # 0
  /\ Len(discriptionInput) >= 5
  /\ Len(discriptionInput) <= 500
DaysPass ==
  LET x == ToNumber(taskInput)
  IN Geq(x, 1) /\ Leq(x, 10)

\* C11: a submit calls addTask exactly when the three validations pass, with
\* the entered title and description and the number of the entered days, and
\* then empties the three fields; otherwise it alerts and leaves the store,
\* the views and the three fields as they were, and notifies nobody.
C11_SubmitAddsIffValid ==
  [][Submit =>
       IF TitlePasses /\ DescriptionPasses /\ DaysPass
       THEN /\ Len(tasks') = Len(tasks) + 1
            /\ SubSeq(Store', 1, Len(tasks)) = Store
            /\ LET new == Store'[Len(tasks')]
               IN <<new.title, new.description, new.days, new.status>>
                    = <<titleInput, discriptionInput, ToNumber(taskInput), Active>>
            /\ Len(round') = Len(listeners)
            /\ <<titleInput', discriptionInput', taskInput'>> = <<"", "", "">>
            /\ last'.alert = ""
       ELSE /\ UNCHANGED <<objs, tasks, listeners, assigned, cards, form>>
            /\ round' = <<>>
            /\ last'.alert # ""
    ]_vars

\* A submit was refused with a valid title and description still in the
\* form, after an earlier submit was accepted.
C11_Witness ==
  /\ last.op = "submit"
  /\ last.alert # ""
  /\ titleInput = "Build CLI"
  /\ discriptionInput = "Short"
  /\ taskInput = "11"
  /\ Len(tasks) = 1

\* C12: every item of the store has a non-empty title, a description of 5
\* to 500 characters and a whole number of days from 1 to 10.
C12_StoredItemsSatisfyDataModel ==
  \A i \in 1..Len(tasks) :
    LET item == objs[tasks[i]]
    IN /\ Len(item.title) > 0
       /\ Len(item.description) >= 5
       /\ Len(item.description) <= 500
       /\ IsInteger(item.days)
       /\ Geq(item.days, 1)
       /\ Leq(item.days, 10)

\* C13: the result of validation is the conjunction of the constraints the
\* descriptor specifies: required holds iff the value's string, trimmed, is
\* non-empty; minLength and maxLength count only for a string value; min and
\* max count only for a number value.  The five named examples follow.
C13_ValidationIsConjunction ==
  LET v == validArg.value
      isString == v.type = "string"
      isNumber == v.type = "number"
  IN /\ isValid \in BOOLEAN
     /\ isValid <=>
          /\ validArg.required => Trim(ValueToString(v)) # ""
          /\ (validArg.minLength # Absent /\ isString)
               => Len(v.str) >= validArg.minLength[1]
          /\ (validArg.maxLength # Absent /\ isString)
               => Len(v.str) <= validArg.maxLength[1]
          /\ (validArg.min # Absent /\ isNumber) => Geq(v.num, validArg.min[1])
          /\ (validArg.max # Absent /\ isNumber) => Leq(v.num, validArg.max[1])
     /\ validArg = Valid(StringValue(""), TRUE, Absent, Absent, Absent, Absent)
          => ~isValid
     /\ validArg = Valid(StringValue("hello"), TRUE, Some(5), Some(500), Absent, Absent)
          => isValid
     /\ validArg = Valid(NumberValue(Num(0)), TRUE, Absent, Absent, Some(1), Some(10))
          => ~isValid
     /\ validArg = Valid(NumberValue(Num(11)), FALSE, Absent, Absent, Some(1), Some(10))
          => ~isValid
     /\ validArg = Valid(NumberValue(Num(5)), FALSE, Absent, Absent, Some(1), Some(10))
          => isValid

\* validation was called on a string with a numeric range, and on that
\* call the range was skipped.
C13_Witness ==
  /\ validArg = Valid(StringValue("hello"), TRUE, Some(5), Some(500), Some(1), Some(10))
  /\ isValid

\* C14: at most one TaskState is ever constructed, none before the first
\* call of getInstance and exactly one from then on; every call of
\* getInstance returns that one, through which the items and listeners
\* registered so far are read.
C14_SingleStore ==
  /\ IF pc = "start" THEN instance = 0 /\ stores = 0
                     ELSE instance = 1 /\ stores = 1
  /\ last.op = "getInstance" =>
       /\ last.returned = 1
       /\ StoreFields(last.returned) = [tasks |-> tasks, listeners |-> listeners]

\* getInstance was called again after an add and a listener registration and
\* returned the store that holds them.
C14_Witness ==
  /\ last.op = "getInstance"
  /\ pc = "ready"
  /\ Len(StoreFields(last.returned).tasks) = 1
  /\ Len(StoreFields(last.returned).listeners) = 3

\* The fragments of the form and of the two lists go into their hosts once,
\* inside construction, the form at the front of "app" and each list at the
\* end of "main", and no other step changes what the hosts hold.
FormAndListsAttachedOnce ==
  /\ LoadInput => dom'.app = <<"user-input">> \o dom.app
  /\ \A type \in ListTypes :
       LoadList(type) => dom'.main = Append(dom.main, type \o "-tasks")
  /\ ~(LoadInput \/ LoadLists) => dom' = dom

\* C15 as stated: every component's fragment is attached once, at the front
\* or the end of its host as the flag says, and no add, transition or
\* re-render takes a fragment out of its host: the hosts keep the form and
\* the lists, and no re-render removes a TaskItem element from its list.
C15_AttachedForever ==
  [][/\ FormAndListsAttachedOnce
     /\ (AddTask \/ Drop) =>
          \A k \in 1..Len(round') : round'[k].removed = 0
    ]_vars

\* C15, amended: the form and the two lists are attached once, at the front
\* or the end of their host as the flag says, and stay there; a TaskItem
\* element is attached at the end of its list when the list re-renders and
\* is taken out again by the next re-render of that list and by nothing else.
C15_AttachedUntilRerender ==
  [][/\ FormAndListsAttachedOnce
     /\ (AddTask \/ Drop) =>
          \A k \in 1..Len(round') :
            round'[k].fn \in ViewListeners =>
              /\ round'[k].removed = Len(cards[round'[k].fn])
              /\ [i \in 1..Len(cards'[round'[k].fn]) |-> cards'[round'[k].fn][i].task]
                   = assigned'[round'[k].fn]
     /\ \A type \in ListTypes :
          cards'[type] # cards[type] =>
            /\ AddTask \/ Drop
            /\ \E k \in 1..Len(round') : round'[k].fn = type
    ]_vars

\* The page is loaded over hosts that already held a heading, and the last
\* store operation re-rendered a list that was showing a card.
C15_Witness ==
  /\ pc = "ready"
  /\ dom = [app |-> <<"user-input", "heading">>,
            main |-> <<"heading", "active-tasks", "finished-tasks">>]
  /\ \E k \in 1..Len(round) : round[k].removed = 1

\* The payload declares plain text as its type.
DeclaresPlainText ==
  dataTransfer.types # <<>> /\ Head(dataTransfer.types) = "text/plain"

\* The payload holds, as plain text, the id of an item of the store.
CarriesItemId ==
  /\ \E i \in 1..Len(dataTransfer.types) : dataTransfer.types[i] = "text/plain"
  /\ \E i \in 1..Len(tasks) : objs[tasks[i]].id = dataTransfer.text

\* C16: a drag-over prevents the default and marks the list droppable when
\* the payload's declared type is plain text, and changes nothing otherwise;
\* a drag-leave clears the list's marker; neither touches the store; a drop
\* whose payload holds no item's id as plain text leaves store and views as
\* they were and notifies nobody.
C16_PlainTextOnly ==
  [][\A t \in ListTypes :
       /\ DragOverOn(t) =>
            /\ IF DeclaresPlainText
               THEN /\ last'.defaultPrevented
                    /\ droppable' = [droppable EXCEPT ![t] = TRUE]
               ELSE /\ ~last'.defaultPrevented
                    /\ droppable' = droppable
            /\ UNCHANGED <<objs, tasks, listeners, assigned, cards, round>>
       /\ DragLeaveOn(t) =>
            /\ droppable' = [droppable EXCEPT ![t] = FALSE]
            /\ UNCHANGED <<objs, tasks, listeners, assigned, cards, round>>
       /\ (DropOn(t) /\ ~CarriesItemId) => SilentNoOp
    ]_vars

\* Markup that also declares plain text was dragged over the finished list,
\* which holds no card and was not marked, while the active list is marked.
C16_Witness ==
  /\ last = [op |-> "dragover", type |-> "finished", defaultPrevented |-> FALSE]
  /\ dataTransfer.types = <<"text/html", "text/plain">>
  /\ droppable = [active |-> TRUE, finished |-> FALSE]
  /\ Len(tasks) = 1

\* The cards of both lists.
AllCards == UNION {Range(cards[t]) : t \in ListTypes}

\* C17: a card's label is the singular "1 day" exactly when its item's days
\* equal 1; for every other count, 0 and 2 included, it is the count
\* followed by the plural "days".
C17_SingularOnlyForOne ==
  \A c \in AllCards :
    LET days == objs[c.task].days
    IN /\ c.h3 = "1 day to complete the task" <=> days = Num(1)
       /\ days # Num(1) =>
            c.h3 = NumberToString(days) \o " days to complete the task"
       /\ days = Num(0) => c.h3 = "0 days to complete the task"
       /\ days = Num(2) => c.h3 = "2 days to complete the task"
       /\ days = ToNumber("1.5") => c.h3 = "1.5 days to complete the task"

\* The finished list shows a card of an item with no days and the active
\* list a card of an item with one day.
C17_Witness ==
  /\ \E c \in Range(cards["finished"]) : objs[c.task].days = Num(0)
  /\ \E c \in Range(cards["active"]) : objs[c.task].days = Num(1)

\* C18: each list's assignedTasks are the store's items of the list's
\* status, in the store's order, and the list shows one card per assigned
\* item, in that order.
C18_ViewsMirrorStore ==
  \A t \in ListTypes :
    /\ assigned[t] = SelectSeq(tasks, LAMBDA r : objs[r].status = BoundStatus(t))
    /\ Len(cards[t]) = Len(assigned[t])
    /\ \A k \in 1..Len(cards[t]) : cards[t][k].task = assigned[t][k]

\* After a second add the active list, re-rendered for the second time, shows
\* two cards and the finished list none.
C18_Witness ==
  /\ last.op = "addTask"
  /\ Len(tasks) = 2
  /\ Len(cards["active"]) = 2
  /\ Len(cards["finished"]) = 0
  /\ Len(round) = Len(listeners)

\* The positions of the store's items with the given id.
WithId(taskId) == {i \in 1..Len(tasks) : objs[tasks[i]].id = taskId}

\* C19: a transition that changes a status changes the status of the first
\* item with the given id and nothing else: the other fields of that item,
\* every field of every other item, the sequence's length and order and the
\* listeners are as before.
C19_OnlyFirstMatchChanges ==
  [][\A t \in ListTypes :
       LET taskId == GetData(dataTransfer)
       IN \A i \in WithId(taskId) :
            ( /\ DropOn(t)
              /\ \A j \in WithId(taskId) : i <= j
              /\ Store[i].status # BoundStatus(t) ) =>
              /\ Store' = [Store EXCEPT ![i].status = BoundStatus(t)]
              /\ tasks' = tasks
              /\ listeners' = listeners
              /\ \A r \in 1..Len(objs) :
                   r # tasks[i] => objs'[r] = objs[r]
    ]_vars

\* Two items share an id, and a drop of that id on the finished list has
\* moved the first of them and left the second Active.
C19_Witness ==
  /\ last.op = "drop"
  /\ Len(tasks) = 2
  /\ Store[1].id = Store[2].id
  /\ last.id = Store[1].id
  /\ Store[1].status = Completed
  /\ Store[2].status = Active
  /\ round # <<>>

\* C20: each registered listener has been called as many times as there were
\* addTask calls and status-changing transitions together.
C20_OneCallPerMutation ==
  /\ DOMAIN notified = 1..Len(listeners)
  /\ \A k \in 1..Len(listeners) : notified[k] = mutations

\* One item was added, moved to Finished, back to Active and to Finished
\* again, and a further drop on the finished list changed nothing.
C20_Witness ==
  /\ Len(tasks) = 1
  /\ mutations = 4
  /\ notified = <<4, 4>>
  /\ Store[1].status = Completed
  /\ last.op = "drop"
  /\ round = <<>>

\* C21: the store's listeners change only by the addListener call in the
\* construction of a TaskList, which appends that list's one listener; no
\* addTask, drop or re-render changes them; so once both lists are
\* constructed the listeners are those two, whatever happens afterwards.
C21_TwoListeners ==
  [][/\ \A type \in ListTypes :
          LoadList(type) => listeners' = Append(listeners, type)
     /\ listeners' # listeners => LoadLists
     /\ pc' = "ready" => listeners' = <<"active", "finished">>
    ]_vars

\* Both lists are constructed, two items were added and one of them was
\* dropped on the finished list, so each list has re-rendered a card.
C21_Witness ==
  /\ pc = "ready"
  /\ Len(listeners) = 2
  /\ last.op = "drop"
  /\ Len(round) = 2
  /\ Len(cards["active"]) = 1
  /\ Len(cards["finished"]) = 1

\* C22: a drop leaves the droppable marker of every list as it was, whether
\* or not it re-renders the lists, and a marker that is set is cleared by a
\* drag-leave on its list and by no other step.
C22_DropKeepsMarker ==
  [][\A t \in ListTypes :
       /\ DropOn(t) => droppable' = droppable
       /\ (droppable[t] /\ ~droppable'[t]) => DragLeaveOn(t)
    ]_vars

\* A card was dragged over the finished list and dropped on it: both lists
\* re-rendered and the finished list is still marked.
C22_Witness ==
  /\ last.op = "drop"
  /\ last.type = "finished"
  /\ Len(round) = 2
  /\ Len(cards["finished"]) = 1
  /\ droppable["finished"]

====
